---- MODULE Spec2Model ----
(***************************************************************************)
(* custom_components/nordpool/aio_price.py                                 *)
(*                                                                         *)
(* AioPrices.fetch requests three reporting days (yesterday, today,        *)
(* tomorrow) concurrently, parses the three pages and hands them to        *)
(* join_result_for_correct_time, which keeps, per bidding area, the        *)
(* records that start inside the area's local day of the reference         *)
(* instant.  The whole of fetch is wrapped by backoff.on_exception.        *)
(*                                                                         *)
(* Time is counted in whole hours since an epoch (UTC).  A wall-clock      *)
(* time of a zone is the hour count shown by a clock of that zone.         *)
(***************************************************************************)
EXTENDS Integers, Sequences, FiniteSets, TLC

VARIABLES
    season,     \* where the run lies in the year: "winter", "fall", "spring"
    apiZone,    \* the zone whose calendar days are the upstream reporting days
    end_date,   \* fetch's end_date argument: [kind, inst]
    pc,         \* "idle", "gather", "backoff", "returned", "raised"
    tries,      \* calls of fetch made by the backoff wrapper
    elapsed,    \* seconds since the wrapper's first call
    reqDays,    \* reporting day asked of each of the three jobs
    task,       \* state of each job: "idle", "pending", "ok", "err"
    requested,  \* per job slot: requests issued so far
    refetched,  \* a retry has asked again for a page that had arrived
    body,       \* per job slot: what the parsed response held
    bad,        \* the upstream record that carries no price, if any
    raw,        \* the parsed pages, as join_result_for_correct_time left them
    result,     \* the value fetch returned
    exc,        \* the exception in flight or delivered to the caller
    convIn,     \* _conv_to_float: argument
    convOut     \* _conv_to_float: returned value

vars == <<season, apiZone, end_date, pc, tries, elapsed, reqDays, task,
          requested, refetched, body, bad, raw, result, exc, convIn, convOut>>

fetchVars == <<season, apiZone, end_date, pc, tries, elapsed, reqDays, task,
               requested, refetched, body, bad, raw, result, exc>>

convVars == <<convIn, convOut>>

-----------------------------------------------------------------------------
(* Bounds and program constants *)

MaxTries == 2            \* cap on the calls the wrapper makes in one run
HoursPerDay == 24
Today == 2               \* the day datetime.now() falls in
max_value == 20          \* backoff: largest single wait, seconds
max_time == 60           \* backoff: retry budget, seconds

Jobs == 1..3

-----------------------------------------------------------------------------
(* Python dicts: functions from keys to values *)

EmptyDict == [k \in {} |-> k]

\* d.update(other): the keys of other win
update(d, other) == other @@ d

\* the entry read and left in place
pop_keep(d, key) == d

\* d.pop(key): d without the key
pop(d, key) == [k \in (DOMAIN d) \ {key} |-> d[k]]

-----------------------------------------------------------------------------
(* Zones *)

\* the registry, restricted to two of its areas; "PL" is not in it
tzs == ("SE1" :> "Europe/Stockholm") @@ ("FI" :> "Europe/Helsinki")

BaseOffset ==
    ("UTC" :> 0) @@ ("Europe/Stockholm" :> 1) @@ ("Europe/Helsinki" :> 2)
    @@ ("Etc/GMT-3" :> 3)

ObservesDst == {"Europe/Stockholm", "Europe/Helsinki"}

\* European clocks change at 01:00 UTC
TransitionInstant == HoursPerDay * Today + 1

\* whether summer time is in force at an instant of a run lying in season s
InDst(s, inst) ==
    CASE s = "fall" -> inst < TransitionInstant
      [] s = "spring" -> inst >= TransitionInstant
      [] OTHER -> FALSE

OffsetIn(s, zone, inst) ==
    BaseOffset[zone] + (IF zone \in ObservesDst /\ InDst(s, inst) THEN 1 ELSE 0)

utcoffset(zone, inst) == OffsetIn(season, zone, inst)

\* datetime.astimezone: the wall-clock time of `zone` at instant `inst`
astimezone(inst, zone) == inst + utcoffset(zone, inst)

-----------------------------------------------------------------------------
(* join_result_for_correct_time *)

INVALID_VALUES == {"None", "inf"}

JunkKeys == {"Average", "Min", "Max", "Off-peak 1", "Off-peak 2", "Peak"}

\* misc.add_junk: stamps the placeholder on the peak fields of the area dict
add_junk(d) == [k \in JunkKeys |-> "inf"] @@ d

start_of_day(utc, zone) ==
    LET l == astimezone(utc, zone) IN l - (l % HoursPerDay)

\* 23:59:59.999999 of that day; at whole hours, the day's last hour
end_of_day(utc, zone) == start_of_day(utc, zone) + (HoursPerDay - 1)

\* the day's last whole hour left out
in_day_open(local, sod, eod) == sod <= local /\ local < eod

\* aware datetimes with one tzinfo compare by wall-clock time
in_day(local, sod, eod) == sod <= local /\ local <= eod

same_start_end(local, local_end) == local = local_end

\* the start = end test made before the test of the value
Select_skip_first(val, sod, eod, zone) ==
    LET local == astimezone(val.start, zone)
        local_end == astimezone(val.end, zone)
    IN  IF in_day(local, sod, eod)
        THEN IF same_start_end(local, local_end) THEN "skip"
             ELSE IF val.value \in INVALID_VALUES THEN "raise"
             ELSE "append"
        ELSE "pass"

\* the value tested before the day
Select_raise_anywhere(val, sod, eod, zone) ==
    LET local == astimezone(val.start, zone)
        local_end == astimezone(val.end, zone)
    IN  IF val.value \in INVALID_VALUES THEN "raise"
        ELSE IF in_day(local, sod, eod)
        THEN IF same_start_end(local, local_end) THEN "skip" ELSE "append"
        ELSE "pass"

\* what the loop body does with one record: "raise", "skip", "append", "pass"
Select(val, sod, eod, zone) ==
    LET local == astimezone(val.start, zone)
        local_end == astimezone(val.end, zone)
    IN  IF in_day(local, sod, eod)
        THEN IF val.value \in INVALID_VALUES THEN "raise"
             ELSE IF same_start_end(local, local_end) THEN "skip"
             ELSE "append"
        ELSE "pass"

\* for val in values: ...   (out is fin["areas"][key]["values"])
RECURSIVE JoinValues(_, _, _, _, _, _)
JoinValues(values, i, sod, eod, zone, out) ==
    IF i > Len(values) THEN [values |-> out, exc |-> "none"]
    ELSE LET what == Select(values[i], sod, eod, zone)
         IN  IF what = "raise"
             THEN [values |-> out, exc |-> "InvalidValueException"]
             ELSE JoinValues(values, i + 1, sod, eod, zone,
                             IF what = "append" THEN Append(out, values[i])
                             ELSE out)

\* fin["areas"][key].update(value): every key of value is (re)written
MergeMeta(old, value) == update(old, value)

\* a key the registry does not hold read in the default zone
zone_of_default(key) == IF key \in DOMAIN tzs THEN tzs[key] ELSE "UTC"

\* only one key of the registry found
zone_of_one_key(key) == IF key = "SE1" THEN tzs[key] ELSE "None"

\* zone = tzs.get(key): "None" for a key the registry does not hold
zone_of(key) == IF key \in DOMAIN tzs THEN tzs[key] ELSE "None"

\* one pass of the inner loop body, for area `key` of page p.
\* st = [results, fin, exc]; fin = [keys, areas]
JoinArea(st, p, key, dt) ==
    IF zone_of(key) = "None" THEN st
    ELSE
    LET zone == zone_of(key)
        value == add_junk(st.results[p].areas[key])
        junked == [st.results EXCEPT ![p].areas[key] = value]
    IN  IF "values" \notin DOMAIN value
        THEN [st EXCEPT !.results = junked, !.exc = "KeyError"]
        ELSE
        LET values == value["values"]
            rest == pop(value, "values")
            results1 == [st.results EXCEPT ![p].areas[key] = rest]
            seen == key \in DOMAIN st.fin.areas
            old == IF seen THEN st.fin.areas[key] ELSE EmptyDict
            merged == MergeMeta(old, rest)
            entry == IF "values" \in DOMAIN merged THEN merged
                     ELSE merged @@ ("values" :> << >>)
            keys1 == IF seen THEN st.fin.keys ELSE Append(st.fin.keys, key)
            fin1 == [keys |-> keys1,
                     areas |-> update(st.fin.areas, key :> entry)]
        IN  IF dt.kind # "datetime"
            THEN [results |-> results1, fin |-> fin1, exc |-> "AttributeError"]
            ELSE
            LET r == JoinValues(values, 1, start_of_day(dt.inst, zone),
                                end_of_day(dt.inst, zone), zone,
                                entry["values"])
                entry2 == update(entry, "values" :> r.values)
            IN  [results |-> results1,
                 fin |-> [keys |-> keys1,
                          areas |-> update(st.fin.areas, key :> entry2)],
                 exc |-> r.exc]

\* for key, value in day_.get("areas", {}).items(): ...
RECURSIVE JoinDay(_, _, _, _)
JoinDay(st, p, k, dt) ==
    IF st.exc # "none" \/ k > Len(st.results[p].keys) THEN st
    ELSE JoinDay(JoinArea(st, p, st.results[p].keys[k], dt), p, k + 1, dt)

\* for day_ in results: ...
RECURSIVE JoinFrom(_, _, _)
JoinFrom(st, p, dt) ==
    IF st.exc # "none" \/ p > Len(st.results) THEN st
    ELSE JoinFrom(JoinDay(st, p, 1, dt), p + 1, dt)

EmptyFin == [keys |-> << >>, areas |-> EmptyDict]

join_result_for_correct_time(results, dt) ==
    JoinFrom([results |-> results, fin |-> EmptyFin, exc |-> "none"], 1, dt)

-----------------------------------------------------------------------------
(* The upstream pages *)

AreaOrder == <<"SE1", "PL", "FI">>

NoBad == [inst |-> -1000, area |-> "", value |-> "None"]

ApiZones == <<"UTC", "Europe/Stockholm", "Etc/GMT-3">>
Seasons == <<"winter", "fall", "spring">>
FirstDay == Today - 2
LastDay == Today + 4

\* the reporting day an instant belongs to, for reporting zone z in season s
ApiDayIn(s, z, inst) == (inst + OffsetIn(s, z, inst)) \div HoursPerDay

ApiDay(inst) == ApiDayIn(season, apiZone, inst)

\* the first hour of reporting day d
FirstHour(s, z, d) ==
    CHOOSE h \in (HoursPerDay * d - 4)..(HoursPerDay * d) :
        ApiDayIn(s, z, h) = d /\ ApiDayIn(s, z, h - 1) < d

\* the rows of the hours from h up to, not including, last, in this order
RECURSIVE RowsFrom(_, _)
RowsFrom(h, last) ==
    IF h >= last THEN << >>
    ELSE <<[start |-> h, end |-> h + 1, value |-> "10"]>> \o RowsFrom(h + 1, last)

\* the priced rows of every reporting day, by season, zone and day
RECURSIVE DayRows(_, _, _)
DayRows(s, z, d) ==
    IF d > LastDay THEN << >>
    ELSE <<RowsFrom(FirstHour(s, z, d), FirstHour(s, z, d + 1))>>
         \o DayRows(s, z, d + 1)

RowsTable ==
    <<<<DayRows(Seasons[1], ApiZones[1], FirstDay),
        DayRows(Seasons[1], ApiZones[2], FirstDay),
        DayRows(Seasons[1], ApiZones[3], FirstDay)>>,
      <<DayRows(Seasons[2], ApiZones[1], FirstDay),
        DayRows(Seasons[2], ApiZones[2], FirstDay),
        DayRows(Seasons[2], ApiZones[3], FirstDay)>>,
      <<DayRows(Seasons[3], ApiZones[1], FirstDay),
        DayRows(Seasons[3], ApiZones[2], FirstDay),
        DayRows(Seasons[3], ApiZones[3], FirstDay)>>>>

IndexOf(seq, x) == CHOOSE k \in DOMAIN seq : seq[k] = x

\* the rows of reporting day d as upstream prices them
PricedRows(d) ==
    RowsTable[IndexOf(Seasons, season)][IndexOf(ApiZones, apiZone)][d - FirstDay + 1]

\* the rows of area a: the record that has no price carries b.value
Rows(a, d, b) ==
    LET rows == PricedRows(d)
        k == b.inst - rows[1].start + 1
    IN  IF b.area = a /\ k \in DOMAIN rows
        THEN [rows EXCEPT ![k].value = b.value]
        ELSE rows

DayTag(d) == <<"d0", "d1", "d2", "d3", "d4", "d5", "d6", "d7">>[d + 1]

\* the extra rows of a page: one of the peak fields and one other field
ExtraRows(d) == ("Min" :> DayTag(d)) @@ ("Median" :> DayTag(d))

\* Prices._parse_json applied to a well-formed body for reporting day d
AreaDict(a, d, b) == ("values" :> Rows(a, d, b)) @@ ExtraRows(d)

\* the areas a page lists, in its order: the earliest day has no "FI" yet
PageAreas(d) ==
    IF d = FirstDay THEN SelectSeq(AreaOrder, LAMBDA a : a # "FI") ELSE AreaOrder

RECURSIVE AreaDicts(_, _, _)
AreaDicts(k, d, b) ==
    IF k > Len(PageAreas(d)) THEN EmptyDict
    ELSE (PageAreas(d)[k] :> AreaDict(PageAreas(d)[k], d, b))
         @@ AreaDicts(k + 1, d, b)

Page(d, b) == [keys |-> PageAreas(d), areas |-> AreaDicts(1, d, b)]

\* the day a body reports: upstream may answer with the day before
Served(req, shapes, i) == IF shapes[i] = "stale" THEN req[i] - 1 ELSE req[i]

-----------------------------------------------------------------------------
(* AioPrices.fetch under backoff.on_exception *)

\* the exception of the merge caught as well
Retryable_with_invalid == {"ClientError", "KeyError", "InvalidValueException"}

\* the client's exception caught, KeyError not
Retryable_transport_only == {"ClientError"}

\* the exceptions backoff.on_exception catches
Retryable == {"ClientError", "KeyError"}

NoDays == [i \in Jobs |-> 0]
NoBody == [i \in Jobs |-> "none"]

\* today, tomorrow and the day after
WindowDays_from_today == {[i \in Jobs |-> Today + i - 1]}

\* yesterday, today, tomorrow: three readings of datetime.now(), taken on
\* the same day
WindowDays == {[i \in Jobs |-> Today + i - 2]}

\* the list handed over once one job has a result
GatherDone_any(t) == \E i \in Jobs : t[i] = "ok"

\* asyncio.gather(*jobs) hands over its list once every job has a result
GatherDone(t) == \A i \in Jobs : t[i] = "ok"

\* asyncio.gather(*jobs) raises as soon as one job has raised
GatherFailed(t) == \E i \in Jobs : t[i] = "err"

\* the results listed from the last job to the first
GatherRes_reversed(t) == SelectSeq(<<3, 2, 1>>, LAMBDA i : t[i] = "ok")

\* res: the job slots whose results gather returned, in the order of jobs
GatherRes(t) == SelectSeq(<<1, 2, 3>>, LAMBDA i : t[i] = "ok")

\* only the requests of the jobs that have no result go out
Requests_missing_only(req, t) ==
    [i \in Jobs |-> IF t[i] = "ok" THEN req[i] ELSE req[i] + 1]

\* a call of fetch up to `await asyncio.gather`: all three requests go out
Requests(req, t) == [i \in Jobs |-> req[i] + 1]

StartAttempt ==
    /\ reqDays' \in WindowDays
    /\ task' = [i \in Jobs |-> "pending"]
    /\ requested' = Requests(requested, task)
    /\ body' = NoBody
    /\ bad' = NoBad
    /\ raw' = << >>
    /\ exc' = "none"
    /\ pc' = "gather"

\* the reference instants tried, as [kind, inst]
RefInstants ==
    {HoursPerDay * (Today - 1) + 12, HoursPerDay * Today,
     HoursPerDay * Today + 12, HoursPerDay * Today + 22,
     HoursPerDay * Today + 23, HoursPerDay * (Today + 1) + 12,
     HoursPerDay * (Today + 3) + 12}

EndDates ==
    {[kind |-> "datetime", inst |-> x] : x \in RefInstants}
    \cup {[kind |-> "none", inst |-> 0],
          [kind |-> "date", inst |-> HoursPerDay * Today],
          [kind |-> "str", inst |-> HoursPerDay * Today + 12]}

BadChoices ==
    {NoBad,
     [inst |-> TransitionInstant - 1, area |-> "SE1", value |-> "None"],
     [inst |-> HoursPerDay * Today + 12, area |-> "FI", value |-> "inf"],
     [inst |-> HoursPerDay * Today + 12, area |-> "PL", value |-> "None"],
     [inst |-> HoursPerDay * (Today - 1) + 3, area |-> "SE1", value |-> "inf"]}

Shapes == {"good", "stale"}

\* at most one of the three bodies is stale
BodyChoices ==
    {sh \in [Jobs -> Shapes] : Cardinality({i \in Jobs : sh[i] = "stale"}) <= 1}

\* backoff.expo, capped by max_value: the wait before call number n + 1
Wait(n) == IF 2 ^ (n - 1) < max_value THEN 2 ^ (n - 1) ELSE max_value

\* seconds a failed call may have taken: next to none, or the whole budget
CallSeconds == {0, max_time}

InitFetch ==
    /\ season \in {Seasons[k] : k \in DOMAIN Seasons}
    /\ apiZone \in {ApiZones[k] : k \in DOMAIN ApiZones}
    /\ end_date = [kind |-> "none", inst |-> 0]
    /\ pc = "idle"
    /\ tries = 0
    /\ elapsed = 0
    /\ reqDays = NoDays
    /\ task = [i \in Jobs |-> "idle"]
    /\ requested = [i \in Jobs |-> 0]
    /\ refetched = FALSE
    /\ body = NoBody
    /\ bad = NoBad
    /\ raw = << >>
    /\ result = EmptyFin
    /\ exc = "none"

\* the caller awaits fetch(data_type, end_date): the wrapper's first call
fetch(e) ==
    /\ pc = "idle"
    /\ end_date' = e
    /\ tries' = 1
    /\ elapsed' = 0
    /\ StartAttempt
    /\ UNCHANGED <<season, apiZone, refetched, result, convVars>>

\* the helpers pass their arguments on to fetch
hourly(e) == fetch(e)
daily(e) == fetch(e)
weekly(e) == fetch(e)
monthly(e) == fetch(e)
yearly(e) == fetch(e)

\* _fetch_json / _io of job i ends: a response arrives or the client raises
TaskDone(i) ==
    /\ pc = "gather"
    /\ task[i] = "pending"
    /\ \E how \in {"ok", "err"} : task' = [task EXCEPT ![i] = how]
    /\ UNCHANGED <<season, apiZone, end_date, pc, tries, elapsed, reqDays,
                   requested, refetched, body, bad, raw, result, exc, convVars>>

\* gather re-raises the first job's ClientError into fetch, and so into the
\* wrapper; the jobs still pending are left running and their results dropped
GatherRaise ==
    /\ pc = "gather"
    /\ GatherFailed(task)
    /\ pc' = "backoff"
    /\ exc' = "ClientError"
    /\ UNCHANGED <<season, apiZone, end_date, tries, elapsed, reqDays, task,
                   requested, refetched, body, bad, raw, result, convVars>>

\* raw = [self._parse_json(i, areas) for i in res] meets a body without the
\* currency slice: KeyError at the first such body, the rest is not parsed
ParseRaise ==
    /\ pc = "gather"
    /\ GatherDone(task)
    /\ \E n \in Jobs : \E sh \in BodyChoices :
          body' = [i \in Jobs |-> IF i < n THEN sh[i]
                                  ELSE IF i = n THEN "junk" ELSE "none"]
    /\ pc' = (IF "KeyError" \in Retryable THEN "backoff" ELSE "raised")
    /\ exc' = "KeyError"
    /\ UNCHANGED <<season, apiZone, end_date, tries, elapsed, reqDays, task,
                   requested, refetched, bad, raw, result, convVars>>

\* the pages fetch hands to join_result_for_correct_time
RECURSIVE ParseFrom(_, _, _, _, _)
ParseFrom(res, k, req, shapes, b) ==
    IF k > Len(res) THEN << >>
    ELSE <<Page(Served(req, shapes, res[k]), b)>>
         \o ParseFrom(res, k + 1, req, shapes, b)

ParsedPages(t, req, shapes, b) == ParseFrom(GatherRes(t), 1, req, shapes, b)

\* the rest of fetch after gather: parse the three bodies, join, return
ParseJoin ==
    /\ pc = "gather"
    /\ GatherDone(task)
    /\ \E sh \in BodyChoices : \E b \in BadChoices :
          LET j == join_result_for_correct_time(
                       ParsedPages(task, reqDays, sh, b), end_date)
          IN  /\ body' = sh
              /\ bad' = b
              /\ raw' = j.results
              /\ IF j.exc = "none"
                 THEN pc' = "returned" /\ result' = j.fin /\ exc' = "none"
                 ELSE /\ pc' = IF j.exc \in Retryable THEN "backoff"
                               ELSE "raised"
                      /\ exc' = j.exc
                      /\ UNCHANGED result
    /\ UNCHANGED <<season, apiZone, end_date, tries, elapsed, reqDays, task,
                   requested, refetched, convVars>>

\* backoff: the budget is not spent (elapsed, read before the failed call, is
\* below max_time), so it sleeps and calls fetch again
\* cap: the most calls the wrapper is followed through
RetryUpTo(cap) ==
    /\ pc = "backoff"
    /\ exc \in Retryable
    /\ elapsed < max_time
    /\ tries < cap
    /\ tries' = tries + 1
    /\ \E d \in CallSeconds :
          LET sleep == IF Wait(tries) < max_time - elapsed THEN Wait(tries)
                       ELSE max_time - elapsed
              now == elapsed + d + sleep
          IN  elapsed' = IF now < max_time THEN now ELSE max_time
    /\ StartAttempt
    /\ refetched' = (refetched \/ \E i \in Jobs :
                        task[i] = "ok" /\ requested'[i] > requested[i])
    /\ UNCHANGED <<season, apiZone, end_date, result, convVars>>

Retry == RetryUpTo(MaxTries)

\* backoff: the budget is spent, the exception goes to the caller
GiveUp ==
    /\ pc = "backoff"
    /\ exc \in Retryable
    /\ elapsed >= max_time
    /\ pc' = "raised"
    /\ UNCHANGED <<season, apiZone, end_date, tries, elapsed, reqDays, task,
                   requested, refetched, body, bad, raw, result, exc, convVars>>

Init ==
    /\ InitFetch
    /\ convIn = << >>
    /\ convOut = [kind |-> "none", sign |-> 1, num |-> 0, den |-> 1]

Next ==
    \/ \E e \in EndDates : fetch(e)
    \/ \E e \in EndDates : hourly(e)
    \/ \E e \in EndDates : daily(e)
    \/ \E e \in EndDates : weekly(e)
    \/ \E e \in EndDates : monthly(e)
    \/ \E e \in EndDates : yearly(e)
    \/ \E i \in Jobs : TaskDone(i)
    \/ GatherRaise
    \/ ParseRaise
    \/ ParseJoin
    \/ Retry
    \/ GiveUp

Spec == Init /\ [][Next]_vars

\* the wrapper followed until the budget ends it: every retry sleeps at
\* least a second, so it makes fewer calls than the budget has seconds
RetryInBudget == RetryUpTo(max_time)

InitLive ==
    /\ Init
    /\ season = "winter"
    /\ apiZone = "UTC"

NextLive ==
    \/ \E e \in EndDates : fetch(e)
    \/ \E i \in Jobs : TaskDone(i)
    \/ GatherRaise
    \/ ParseRaise
    \/ ParseJoin
    \/ RetryInBudget
    \/ GiveUp

\* every request ends, with a response or an exception of the client; the
\* event loop resumes fetch once gather is done; asyncio.sleep returns
SpecLive ==
    /\ InitLive
    /\ [][NextLive]_vars
    /\ WF_vars(\E i \in Jobs : TaskDone(i))
    /\ WF_vars(GatherRaise \/ ParseRaise \/ ParseJoin)
    /\ WF_vars(RetryInBudget)
    /\ WF_vars(GiveUp)

-----------------------------------------------------------------------------
(* AioPrices._conv_to_float *)

MaxLen == 3              \* longest argument drawn from Chars

Chars == {"1", "5", ",", ".", " ", "-", "a"}

DigitVal ==
    ("0" :> 0) @@ ("1" :> 1) @@ ("2" :> 2) @@ ("3" :> 3) @@ ("4" :> 4)
    @@ ("5" :> 5) @@ ("6" :> 6) @@ ("7" :> 7) @@ ("8" :> 8) @@ ("9" :> 9)

\* str.replace(old, new) for a one-character old; new is a string
RECURSIVE replace(_, _, _)
replace(str, old, new) ==
    IF str = << >> THEN << >>
    ELSE (IF Head(str) = old THEN new ELSE <<Head(str)>>)
         \o replace(Tail(str), old, new)

Inf == [kind |-> "inf", sign |-> 1, num |-> 0, den |-> 1]

\* the digits of str read as a decimal numeral, a period counting places
RECURSIVE Numeral(_, _, _, _)
Numeral(str, num, den, afterPoint) ==
    IF str = << >> THEN [num |-> num, den |-> den]
    ELSE IF Head(str) = "." THEN Numeral(Tail(str), num, den, TRUE)
    ELSE Numeral(Tail(str), 10 * num + DigitVal[Head(str)],
                 IF afterPoint THEN 10 * den ELSE den, afterPoint)

\* float(str) for a str of digits, periods and a sign: ValueError is "inf"
float(str) ==
    LET neg == str # << >> /\ Head(str) = "-"
        rest == IF neg THEN Tail(str) ELSE str
        points == {i \in DOMAIN rest : rest[i] = "."}
        digits == {i \in DOMAIN rest : rest[i] \in DOMAIN DigitVal}
    IN  IF /\ digits # {}
           /\ Cardinality(points) <= 1
           /\ points \cup digits = DOMAIN rest
        THEN LET n == Numeral(rest, 0, 1, FALSE)
             IN  [kind |-> "float", sign |-> IF neg THEN -1 ELSE 1,
                  num |-> n.num, den |-> n.den]
        ELSE Inf

\* periods dropped as thousands separators before the comma is replaced
conv_to_float_strip_periods(str) ==
    float(replace(replace(replace(str, ".", << >>), ",", <<".">>), " ", << >>))

\* return float(s.replace(",", ".").replace(" ", "")), inf on ValueError
conv_to_float(str) == float(replace(replace(str, ",", <<".">>), " ", << >>))

RECURSIVE Strings(_)
Strings(n) ==
    IF n = 0 THEN {<< >>}
    ELSE LET shorter == Strings(n - 1)
         IN  shorter \cup {Append(t, c) : t \in shorter, c \in Chars}

Example_1_234_56 == <<"1", ".", "2", "3", "4", ",", "5", "6">>
ExampleSpaced == <<"1", " ", "2", "3", "4", ",", "5", "6">>
ExampleAbc == <<"a", "b", "c">>

ConvInputs == Strings(MaxLen) \cup {Example_1_234_56, ExampleSpaced, ExampleAbc}

\* a call of _conv_to_float on a string
NotCalled == [kind |-> "none", sign |-> 1, num |-> 0, den |-> 1]

\* the call of _conv_to_float on the argument
ConvToFloat ==
    /\ convOut = NotCalled
    /\ convOut' = conv_to_float(convIn)
    /\ UNCHANGED <<convIn, fetchVars>>

InitConv ==
    /\ InitFetch
    /\ season = "winter"
    /\ apiZone = "UTC"
    /\ convIn \in ConvInputs
    /\ convOut = NotCalled

NextConv == ConvToFloat

SpecConv == InitConv /\ [][NextConv]_vars

-----------------------------------------------------------------------------
(* What the claims speak of *)

\* join_result_for_correct_time ran in this call of fetch
JoinInvoked == pc \in {"returned", "raised"} /\ \A i \in Jobs : body[i] \in Shapes

\* the pages as fetch handed them to join_result_for_correct_time
InputPages == ParsedPages(task, reqDays, body, bad)

KnownAreas == DOMAIN tzs

LocalDay(inst, zone) == astimezone(inst, zone) \div HoursPerDay

InTargetDay(r, a) == LocalDay(r.start, tzs[a]) = LocalDay(end_date.inst, tzs[a])

DstAnomaly(r, a) == astimezone(r.start, tzs[a]) = astimezone(r.end, tzs[a])

InputRecords(a) ==
    LET pages == InputPages
    IN  UNION {{pages[p].areas[a]["values"][i] :
                   i \in DOMAIN pages[p].areas[a]["values"]} :
               p \in {q \in DOMAIN pages : a \in DOMAIN pages[q].areas}}

OutputValues(a) ==
    IF a \in DOMAIN result.areas THEN result.areas[a]["values"] ELSE << >>

OutputRecords(a) == {OutputValues(a)[i] : i \in DOMAIN OutputValues(a)}

\* C1: when the merge returns, a record of an input page is in a known
\* area's output values exactly if its local start lies in the local day of
\* the reference instant and differs from its local end; nothing else is in
\* the output, and no area outside the registry has output.
C1_Inclusion ==
    pc = "returned" =>
        /\ \A a \in KnownAreas :
              OutputRecords(a) =
                  {r \in InputRecords(a) : InTargetDay(r, a) /\ ~DstAnomaly(r, a)}
        /\ DOMAIN result.areas \subseteq KnownAreas

\* C1 witness: a returned merge that kept a record, dropped one that starts
\* outside the day and dropped one inside the day whose start equals its end
C1_Witness ==
    /\ pc = "returned"
    /\ \E a \in KnownAreas :
          /\ OutputRecords(a) # {}
          /\ \E r \in InputRecords(a) : ~InTargetDay(r, a)
          /\ \E r \in InputRecords(a) : InTargetDay(r, a) /\ DstAnomaly(r, a)

\* C2: the output of the merge holds each hour once: no two records of an
\* area's output values have the same start, also when pages overlap.
C2_NoDuplicateHours ==
    pc = "returned" =>
        \A a \in DOMAIN result.areas :
            \A i, j \in DOMAIN OutputValues(a) :
                i # j => OutputValues(a)[i].start # OutputValues(a)[j].start

HasInRangeInvalid ==
    \E a \in KnownAreas : \E r \in InputRecords(a) :
        InTargetDay(r, a) /\ r.value \in {"None", "inf"}

\* C3: if a page holds, for a known area, a record that starts inside the
\* target local day and has no valid value, the merge raises
\* InvalidValueException and fetch returns nothing, wherever the record is
\* and also when its local start equals its local end.
C3_InvalidRaises ==
    (JoinInvoked /\ end_date.kind = "datetime" /\ HasInRangeInvalid) =>
        (pc = "raised" /\ exc = "InvalidValueException" /\ result = EmptyFin)

\* C3 witness: the merge raised on an invalid record whose local start
\* equals its local end
C3_Witness ==
    /\ JoinInvoked
    /\ exc = "InvalidValueException"
    /\ \E a \in KnownAreas : \E r \in InputRecords(a) :
          /\ InTargetDay(r, a) /\ DstAnomaly(r, a)
          /\ r.value \in {"None", "inf"}

\* the first input page that carries metadata key k for area a
FirstPageWith(a, k) ==
    LET pages == InputPages
    IN  CHOOSE p \in DOMAIN pages :
            /\ a \in DOMAIN pages[p].areas /\ k \in DOMAIN add_junk(pages[p].areas[a])
            /\ \A q \in 1..(p - 1) :
                  ~(a \in DOMAIN pages[q].areas
                    /\ k \in DOMAIN add_junk(pages[q].areas[a]))

\* C4: metadata is first-page-wins: every key of an area's result other than
\* the value list holds what the first page carrying the key gave it.
C4_FirstPageWins ==
    pc = "returned" =>
        \A a \in DOMAIN result.areas :
            \A k \in (DOMAIN result.areas[a]) \ {"values"} :
                result.areas[a][k] =
                    add_junk(InputPages[FirstPageWith(a, k)].areas[a])[k]

\* a page without the areas the registry does not hold
StripPage(page) ==
    [keys |-> SelectSeq(page.keys, LAMBDA a : a \in KnownAreas),
     areas |-> [a \in (DOMAIN page.areas) \cap KnownAreas |-> page.areas[a]]]

StripPages(pages) == [p \in DOMAIN pages |-> StripPage(pages[p])]

\* C5: an area the registry does not hold is dropped without raising, also
\* when its records are invalid, and the outcome for the other areas is what
\* it is for the same pages without that area.
C5_UnknownDropped ==
    JoinInvoked =>
        LET j == join_result_for_correct_time(StripPages(InputPages), end_date)
        IN  /\ DOMAIN result.areas \subseteq KnownAreas
            /\ pc = "returned" => (j.exc = "none" /\ j.fin = result)
            /\ pc = "raised" => j.exc = exc
            /\ \A p \in DOMAIN raw : \A a \in (DOMAIN raw[p].areas) \ KnownAreas :
                  raw[p].areas[a] = InputPages[p].areas[a]

\* C5 witness: a returned merge whose pages held an unknown area with an
\* invalid record inside the reference day
C5_Witness ==
    /\ pc = "returned"
    /\ bad.area \notin KnownAreas
    /\ \E p \in DOMAIN raw : \E a \in (DOMAIN raw[p].areas) \ KnownAreas :
          \E i \in DOMAIN raw[p].areas[a]["values"] :
              /\ raw[p].areas[a]["values"][i].value \in {"None", "inf"}
              /\ ApiDay(raw[p].areas[a]["values"][i].start) = ApiDay(end_date.inst)
    /\ \E a \in KnownAreas : OutputRecords(a) # {}

HourRange == (HoursPerDay * (Today - 2))..(HoursPerDay * (Today + 3))

\* the three pages hold their own reporting days and the reference instant
\* lies in the reporting day of the wall clock
CoveragePre ==
    /\ pc = "returned"
    /\ \A i \in Jobs : body[i] = "good"
    /\ ApiDay(end_date.inst) = Today

Covered(a, h) == \E i \in DOMAIN OutputValues(a) : OutputValues(a)[i].start = h

\* C6 as stated: with the pages of yesterday, today and tomorrow and the
\* reference instant in today's reporting day, the merged series of a known
\* area holds every hour of the area's local day of the reference instant.
C6_FullCoverage ==
    CoveragePre =>
        \A a \in KnownAreas : \A h \in HourRange :
            LocalDay(h, tzs[a]) = LocalDay(end_date.inst, tzs[a]) => Covered(a, h)

\* C6 amended: ... holds every hour of that local day whose local start
\* differs from its local end.
C6_CoverageButAnomaly ==
    CoveragePre =>
        \A a \in KnownAreas : \A h \in HourRange :
            (/\ LocalDay(h, tzs[a]) = LocalDay(end_date.inst, tzs[a])
             /\ astimezone(h, tzs[a]) # astimezone(h + 1, tzs[a]))
            => Covered(a, h)

\* C6 witness: a covered local day that spans two reporting days and holds
\* the hour in which the clocks are set back
C6_Witness ==
    /\ CoveragePre
    /\ \E a \in KnownAreas :
          /\ \E i, j \in DOMAIN OutputValues(a) :
                ApiDay(OutputValues(a)[i].start) # ApiDay(OutputValues(a)[j].start)
          /\ \E h \in HourRange :
                /\ LocalDay(h, tzs[a]) = LocalDay(end_date.inst, tzs[a])
                /\ astimezone(h, tzs[a]) = astimezone(h + 1, tzs[a])

\* C7: fetch returns a merge result only when all three page fetches
\* succeeded and were parsed and the merge ran over all three pages without
\* meeting an invalid value inside the day; a call that ended otherwise ended
\* with an exception and handed no result.
C7_AllOrNothing ==
    /\ pc = "returned" =>
          /\ \A i \in Jobs : task[i] = "ok" /\ body[i] \in Shapes
          /\ Len(raw) = 3
          /\ \A p \in DOMAIN raw : \A a \in (DOMAIN raw[p].areas) \cap KnownAreas :
                "values" \notin DOMAIN raw[p].areas[a]
          /\ ~HasInRangeInvalid
          /\ exc = "none"
    /\ pc = "raised" => exc # "none"
    /\ pc # "returned" => result = EmptyFin

\* C7 witness: a result returned by the second call, after a failed first
C7_Witness ==
    /\ pc = "returned"
    /\ tries > 1
    /\ \E a \in KnownAreas : OutputRecords(a) # {}

\* the instant the claim has the merge use for an end_date of any form
ReferenceInstant ==
    IF end_date.kind = "none" THEN HoursPerDay * (Today + 1) + 12
    ELSE end_date.inst

\* C8: whatever the form of end_date (absent, date, datetime, string), a call
\* whose pages were fetched and parsed ends as the merge for the instant it
\* denotes ends, tomorrow when it is absent.
C8_AnyFormAccepted ==
    JoinInvoked =>
        LET j == join_result_for_correct_time(
                     InputPages, [kind |-> "datetime", inst |-> ReferenceInstant])
        IN  IF j.exc = "none" THEN pc = "returned" /\ result = j.fin
            ELSE pc = "raised" /\ exc = j.exc

\* C10 as stated: a page is requested again only after its own fetch failed,
\* and the barrier is passed only when no job is pending.
C10_PerTaskRetry ==
    [][/\ \A i \in Jobs :
             (requested[i] > 0 /\ requested'[i] > requested[i]) => task[i] = "err"
       /\ (pc = "gather" /\ pc' # "gather") => \A i \in Jobs : task[i] # "pending"
      ]_vars

\* C10 amended: every call of fetch the wrapper makes, the first and each
\* retry, issues all three page requests.
C10_WholeCallRetry == \A i \in Jobs : requested[i] = tries

\* C10 witness: a retry under way that asked again for a page that had
\* arrived in the failed call
C10_Witness == pc = "gather" /\ tries > 1 /\ refetched

\* two results of _conv_to_float denote the same number
SameNumber(x, num, den) ==
    x.kind = "float" /\ x.sign = 1 /\ x.num * den = num * x.den

ConvCalled == convOut.kind # "none"

\* the characters of a string that are not spaces, in order
Unspaced(str) == SelectSeq(str, LAMBDA c : c # " ")

\* after the spaces are dropped: digits with at most one comma or period among
\* them, at least one digit, an optional leading minus
WellFormed(str) ==
    LET t == Unspaced(str)
        u == IF t # << >> /\ t[1] = "-" THEN Tail(t) ELSE t
    IN  /\ \E i \in DOMAIN u : u[i] \in DOMAIN DigitVal
        /\ \A i \in DOMAIN u : u[i] \in (DOMAIN DigitVal) \cup {",", "."}
        /\ Cardinality({i \in DOMAIN u : u[i] \in {",", "."}}) <= 1

\* C9 as stated: to_number("1.234,56") is 1234.56, and a string that cannot
\* be parsed gives positive infinity.
C9_ThousandsStripped ==
    ConvCalled =>
        /\ convIn = Example_1_234_56 => SameNumber(convOut, 123456, 100)
        /\ convIn = ExampleAbc => convOut = Inf

\* C9 amended: the comma becomes a period and spaces are dropped, nothing
\* else: to_number("1 234,56") is 1234.56, to_number("1.234,56") and
\* to_number("abc") are positive infinity, and the result is a number exactly
\* for the strings that are well formed once the spaces are dropped.
C9_SpacesStripped ==
    ConvCalled =>
        /\ convIn = ExampleSpaced => SameNumber(convOut, 123456, 100)
        /\ convIn = Example_1_234_56 => convOut = Inf
        /\ convIn = ExampleAbc => convOut = Inf
        /\ convOut.kind \in {"float", "inf"}
        /\ convOut.kind = "float" <=> WellFormed(convIn)
        /\ convIn = <<"1", ",", "5">> => SameNumber(convOut, 3, 2)

\* C9 witness: the call on "1.234,56" has returned positive infinity
C9_Witness == ConvCalled /\ convIn = Example_1_234_56 /\ convOut = Inf

\* C11: an InvalidValueException raised by the merge is never retried: the
\* step that raises it ends the call of fetch with that exception and no
\* result, and no page request and no change of outcome follows it.
C11_InvalidNotRetried ==
    [][/\ exc' = "InvalidValueException" =>
             (pc' = "raised" /\ result' = EmptyFin)
       /\ exc = "InvalidValueException" =>
             (requested' = requested /\ tries' = tries /\ exc' = exc /\ pc' = pc)
      ]_vars

\* C11 witness: the merge raised InvalidValueException in the first call,
\* with retry budget left, and the call ended there
C11_Witness ==
    /\ pc = "raised"
    /\ exc = "InvalidValueException"
    /\ tries < MaxTries
    /\ elapsed < max_time
    /\ \A i \in Jobs : requested[i] = 1

\* C12: a ClientError of a page fetch and a KeyError of the parse are under
\* one bounded retry policy: while the budget is not spent either of them is
\* followed by another call of fetch and is not handed to the caller, and
\* every call of fetch ends, with a result or with the exception handed to
\* the caller, however long the failure lasts.
C12_BoundedRetry ==
    /\ [](\A e \in {"ClientError", "KeyError"} :
             (pc = "raised" /\ exc = e) => elapsed >= max_time)
    /\ \A e \in {"ClientError", "KeyError"} :
          (pc = "backoff" /\ exc = e /\ elapsed < max_time) ~> (pc = "gather")
    /\ (pc = "gather") ~> (pc \in {"returned", "raised"})
    /\ [](pc = "raised" => exc # "none" /\ result = EmptyFin)

\* C12 witness: after several retries the budget is spent and the KeyError of
\* the last call is handed to the caller
C12_Witness ==
    /\ pc = "raised"
    /\ exc = "KeyError"
    /\ tries > 3
    /\ elapsed >= max_time

StrictlyIncreasing(seq) ==
    \A i \in 1..(Len(seq) - 1) : seq[i].start < seq[i + 1].start

\* C13: whatever order the three page fetches ended in, the pages are merged
\* in the order of the jobs (yesterday, today, tomorrow), and when each page
\* holds its own reporting day the output values of every area are in
\* strictly increasing order of start.
C13_FixedOrder ==
    (pc = "returned" /\ \A i \in Jobs : body[i] = "good") =>
        /\ \A p \in DOMAIN raw :
              \A a \in (DOMAIN raw[p].areas) \ KnownAreas :
                  \A i \in DOMAIN raw[p].areas[a]["values"] :
                      ApiDay(raw[p].areas[a]["values"][i].start) = Today + p - 2
        /\ \A a \in DOMAIN result.areas : StrictlyIncreasing(OutputValues(a))

\* C13 witness: a returned merge of three pages of their own days in which
\* an area's output values come from two pages
C13_Witness ==
    /\ pc = "returned"
    /\ \A i \in Jobs : body[i] = "good"
    /\ \E a \in DOMAIN result.areas :
          \E i, j \in DOMAIN OutputValues(a) :
              ApiDay(OutputValues(a)[i].start) # ApiDay(OutputValues(a)[j].start)

\* an input record without a valid value
InvalidInputs(a) == {r \in InputRecords(a) : r.value \in {"None", "inf"}}

\* C14: when every record without a valid value starts outside the local day
\* of the reference instant in its area's zone, or belongs to an area the
\* registry does not hold, the merge does not raise: it returns the merged
\* result, and no such record is in it.
C14_InvalidOutsideDay ==
    (JoinInvoked /\ end_date.kind = "datetime" /\ ~HasInRangeInvalid) =>
        /\ pc = "returned"
        /\ exc = "none"
        /\ \A a \in DOMAIN result.areas :
              /\ OutputRecords(a) \cap InvalidInputs(a) = {}
              /\ \A r \in OutputRecords(a) : r.value \notin {"None", "inf"}

\* C14 witness: a returned merge, with records kept, whose pages held for a
\* known area a record without a valid value that starts outside the day
C14_Witness ==
    /\ pc = "returned"
    /\ end_date.kind = "datetime"
    /\ \E a \in KnownAreas :
          /\ \E r \in InvalidInputs(a) : ~InTargetDay(r, a)
          /\ OutputRecords(a) # {}

\* the merge called once more on the page objects the first call was given
SecondCall == join_result_for_correct_time(raw, end_date)

\* C15: the merge changes the pages it is given: every known area of a page
\* it has processed has lost its "values" entry, the areas the registry does
\* not hold are as they were, and a second call on the same pages raises
\* KeyError at the first known area instead of returning the result again.
C15_InputsChanged ==
    JoinInvoked =>
        /\ \A p \in DOMAIN raw :
              \A a \in (DOMAIN raw[p].areas) \ KnownAreas :
                  raw[p].areas[a] = InputPages[p].areas[a]
        /\ pc = "returned" =>
              \A p \in DOMAIN raw :
                  \A a \in (DOMAIN raw[p].areas) \cap KnownAreas :
                      /\ "values" \in DOMAIN InputPages[p].areas[a]
                      /\ "values" \notin DOMAIN raw[p].areas[a]
        /\ SecondCall.exc = "KeyError"
        /\ SecondCall.fin = EmptyFin
        /\ SecondCall.results = raw

\* C15 witness: a returned merge after which the first page's known areas
\* have no "values" while an area outside the registry still has its own
C15_Witness ==
    /\ pc = "returned"
    /\ \E a \in KnownAreas : OutputRecords(a) # {}
    /\ \E a \in (DOMAIN raw[1].areas) \cap KnownAreas :
          "values" \notin DOMAIN raw[1].areas[a]
    /\ \E a \in (DOMAIN raw[1].areas) \ KnownAreas :
          "values" \in DOMAIN raw[1].areas[a]
    /\ SecondCall.exc = "KeyError"

\* the area codes that occur in at least one input page
InputAreas == UNION {DOMAIN InputPages[p].areas : p \in DOMAIN InputPages}

Qualifying(a) ==
    {r \in InputRecords(a) : InTargetDay(r, a) /\ ~DstAnomaly(r, a)}

\* C16: when the merge returns, the areas of its result are exactly the
\* areas of the registry that occur in an input page, each of them has a
\* "values" list, and the list is empty when no record of the area qualified.
C16_AreasExact ==
    pc = "returned" =>
        /\ DOMAIN result.areas = KnownAreas \cap InputAreas
        /\ {result.keys[i] : i \in DOMAIN result.keys} = DOMAIN result.areas
        /\ \A a \in DOMAIN result.areas :
              /\ "values" \in DOMAIN result.areas[a]
              /\ DOMAIN result.areas[a]["values"] =
                     1..Len(result.areas[a]["values"])
              /\ Qualifying(a) = {} => result.areas[a]["values"] = << >>

\* C16 witness: a returned merge for a reference instant whose local day is
\* outside the fetched days and a page that lacks a known area: every known
\* area is there with an empty list
C16_Witness ==
    /\ pc = "returned"
    /\ ApiDay(end_date.inst) > Today + 1
    /\ DOMAIN result.areas = KnownAreas
    /\ \E p \in DOMAIN InputPages : ~(KnownAreas \subseteq DOMAIN InputPages[p].areas)
    /\ \A a \in KnownAreas :
          result.areas[a]["values"] = << >> /\ InputRecords(a) # {}

====
